---- MODULE Spec2Model ----
(***************************************************************************)
(* Model of the chat application: the server-side WebSocketManager         *)
(* (backend/utils/websocket.js) with the Message schema and the Database   *)
(* probe, and the client-side ChatInterface connection logic (README.md).  *)
(*                                                                         *)
(* Spec       : the server, every handler and every await point, sockets   *)
(*              that close or fail, a store that connects and disconnects. *)
(* SteadySpec : the server with one more frame and no socket closing.      *)
(* ProtocolSpec : the server fed joins and messages over a range of names, *)
(*              frames of unknown type and unparseable data.               *)
(* BodySpec   : the server fed message frames over a range of bodies.      *)
(* NameSpec   : the server fed messages that name their sender, with       *)
(*              sockets that close or fail and a store that stays as it is.*)
(* ClientSpec : one mounted ChatInterface and the sockets and timers it    *)
(*              creates.                                                   *)
(* UiSpec     : one ChatInterface with an open socket, handling events.    *)
(* RaceSpec   : the server while no socket closes, the arrival of every    *)
(*              socket's first join frame marked in its outbox.            *)
(***************************************************************************)
EXTENDS Integers, Sequences, FiniteSets, TLC

VARIABLES
    \* ---- server (websocket.js) ----
    clients,          \* keys of the Map this.clients (ws -> clientInfo)
    username,         \* clientInfo.username of the clientInfo object made for each ws
    readyState,       \* ws.readyState of each server-side socket
    messageHistory,   \* this.messageHistory
    store,            \* documents of the Message collection, in insertion order
    dbConnected,      \* mongoose.connection.readyState === 1
    tasks,            \* handlers suspended at an await (Message.find / save)
    outbox,           \* per socket, the payloads handed to ws.send, in order
    clock,            \* the last value new Date() returned
    nframes,          \* number of 'message' events handled so far
    accepted,         \* history: messageData records in the order they were built
    bcastLog,         \* history: one entry per broadcastMessage call
    \* ---- client (README.md, ChatInterface) ----
    mounted,          \* "rendered", then "mounted" (effect ran), then "unmounted" (cleanup ran)
    isConnected,      \* React state isConnected
    isConnecting,     \* React state isConnecting
    error,            \* React state error
    sockets,          \* the WebSocket objects created so far
    wsRef,            \* wsRef.current: index into sockets, 0 for null
    timers,           \* pending reconnect timeouts (setTimeout not yet fired/cleared)
    reconnectTimeoutRef, \* reconnectTimeoutRef.current: a timer id, 0 for null
    reconnectAttempts,   \* reconnectAttempts.current
    clicks,           \* number of clicks on the Reconnect button so far
    delays,           \* history: delays scheduled since the counter was last 0
    messages,         \* React state messages: the list the client displays
    received,         \* history: the events handleWebSocketMessage has handled
    \* ---- the join of a socket and the broadcasts around it ----
    joinMark          \* history: per server socket, the length of its outbox when
                      \* its first join frame arrived, -1 before

serverVars == <<clients, username, readyState, messageHistory, store, dbConnected,
                tasks, outbox, clock, nframes, accepted, bcastLog>>
clientVars == <<mounted, isConnected, isConnecting, error, sockets, wsRef, timers,
                reconnectTimeoutRef, reconnectAttempts, clicks, delays>>
uiVars == <<messages, received, joinMark>>
vars == <<serverVars, clientVars, uiVars>>

-----------------------------------------------------------------------------
(* Bounds of the model *)

\* number of server-side connections ever accepted
NConns == 2
\* number of 'message' events the server handles
MaxFrames == 3
\* number of 'message' events handled when sockets may close or fail
MaxCoreFrames == 2
\* largest value of the server clock
MaxClock == 1
\* number of server-side sockets that close or fail
MaxDrops == 1
\* number of 'message' events handled when the frames are drawn from BodyFrames
MaxBodyFrames == 2
\* number of 'message' events handled when the frames are drawn from ProtocolFrames
MaxProtocolFrames == 3
\* number of WebSocket objects one ChatInterface creates
MaxSockets == 6
\* number of events the client handles
MaxReceived == 3
\* number of frames the client sends on one socket
MaxSent == 2
\* number of clicks on the Reconnect button
MaxClicks == 1

Conns == 1..NConns

-----------------------------------------------------------------------------
(* JavaScript strings.  A string is the sequence of its maximal runs of    *)
(* equal characters, [c |-> character, n |-> run length >= 1]; "" is <<>>. *)

Rep(ch, k) == IF k = 0 THEN <<>> ELSE <<[c |-> ch, n |-> k]>>

Concat(s, t) ==
    IF s = <<>> THEN t
    ELSE IF t = <<>> THEN s
    ELSE IF s[Len(s)].c = t[1].c
         THEN SubSeq(s, 1, Len(s) - 1)
              \o <<[c |-> t[1].c, n |-> s[Len(s)].n + t[1].n]>>
              \o Tail(t)
         ELSE s \o t

RECURSIVE Lit(_)
Lit(chars) == IF chars = <<>> THEN <<>>
              ELSE Concat(Rep(Head(chars), 1), Lit(Tail(chars)))

RECURSIVE StrLen(_)
StrLen(s) == IF s = <<>> THEN 0 ELSE s[1].n + StrLen(Tail(s))

IsSpace(ch) == ch = " "

SetMin(S) == CHOOSE x \in S : \A y \in S : x <= y
SetMax(S) == CHOOSE x \in S : \A y \in S : x >= y

\* String.prototype.trim
Trim(s) ==
    LET idx == {i \in 1..Len(s) : ~IsSpace(s[i].c)}
    IN  IF idx = {} THEN <<>> ELSE SubSeq(s, SetMin(idx), SetMax(idx))

\* the value of a field that is absent from the parsed frame
Undefined == <<[c |-> "undefined", n |-> 0]>>

\* !v for a string or undefined
Falsy(v) == v = Undefined \/ v = <<>>

\* a || b
OrElse(a, b) == IF Falsy(a) THEN b ELSE a

ANONYMOUS == Lit(<<"A", "n", "o", "n", "y", "m", "o", "u", "s">>)
JOINED == Lit(<<" ", "j", "o", "i", "n", "e", "d", " ", "t", "h", "e", " ", "c", "h", "a", "t">>)
LEFT == Lit(<<" ", "l", "e", "f", "t", " ", "t", "h", "e", " ", "c", "h", "a", "t">>)
CONNECTED == Lit(<<"C", "o", "n", "n", "e", "c", "t", "e", "d", " ", "t", "o", " ", "c", "h", "a", "t", " ", "s", "e", "r", "v", "e", "r">>)
E_INVALID == Lit(<<"I", "n", "v", "a", "l", "i", "d", " ", "m", "e", "s", "s", "a", "g", "e", " ", "f", "o", "r", "m", "a", "t">>)
E_UNKNOWN == Lit(<<"U", "n", "k", "n", "o", "w", "n", " ", "m", "e", "s", "s", "a", "g", "e", " ", "t", "y", "p", "e">>)
E_EMPTY == Lit(<<"M", "e", "s", "s", "a", "g", "e", " ", "c", "a", "n", "n", "o", "t", " ", "b", "e", " ", "e", "m", "p", "t", "y">>)
E_JOIN == Lit(<<"E", "r", "r", "o", "r", " ", "j", "o", "i", "n", "i", "n", "g", " ", "c", "h", "a", "t">>)
E_SEND == Lit(<<"E", "r", "r", "o", "r", " ", "s", "e", "n", "d", "i", "n", "g", " ", "m", "e", "s", "s", "a", "g", "e">>)
E_LONG == Lit(<<"M", "e", "s", "s", "a", "g", "e", " ", "t", "o", "o", " ", "l", "o", "n", "g", " ", "(", "m", "a", "x", " ", "1", "0", "0", "0", " ", "c", "h", "a", "r", "a", "c", "t", "e", "r", "s", ")">>)

\* message.length > 1000 (websocket.js), maxlength: 1000 (Message.js)
MaxMessageLength == 1000
\* maxlength: 50 of the schema's username
MaxUsernameLength == 50
\* .limit(50) and slice(-50)
HistoryPage == 50
\* messageHistory.length > 100, slice(-100)
HistoryRetention == 100

-----------------------------------------------------------------------------
(* Sequences *)

\* Array.prototype.slice(-k)
SliceLast(s, k) == IF Len(s) <= k THEN s ELSE SubSeq(s, Len(s) - k + 1, Len(s))

Reverse(s) == [i \in 1..Len(s) |-> s[Len(s) + 1 - i]]

RemoveAt(s, i) == SubSeq(s, 1, i - 1) \o SubSeq(s, i + 1, Len(s))

Last(s) == s[Len(s)]

-----------------------------------------------------------------------------
(* Message.js: the mongoose schema *)

\* the setters (trim: true) applied when the document is built
messageSchema(messageData) ==
    [username  |-> Trim(messageData.username),
     message   |-> Trim(messageData.message),
     timestamp |-> messageData.timestamp]

\* the validators (required, maxlength) run by save()
SchemaValid(doc) ==
    /\ StrLen(doc.username) >= 1
    /\ StrLen(doc.username) <= MaxUsernameLength
    /\ StrLen(doc.message) >= 1
    /\ StrLen(doc.message) <= MaxMessageLength

\* Message.find().sort({timestamp: -1}).limit(50).lean(): the newest documents
\* first; documents of equal timestamp come in any order
FindSorted ==
    {[i \in 1..(IF Len(store) <= HistoryPage THEN Len(store) ELSE HistoryPage)
        |-> store[p[i]]] :
        p \in {q \in Permutations(DOMAIN store) :
                 \A i, j \in DOMAIN store :
                     i < j => store[q[i]].timestamp >= store[q[j]].timestamp}}

-----------------------------------------------------------------------------
(* websocket.js: payloads *)

ConnectionEv == [type |-> "connection", message |-> CONNECTED]
ErrorEv(text) == [type |-> "error", message |-> text]
HistoryEv(history) == [type |-> "history", messages |-> history]
SystemEv(text, t) == [type |-> "system", message |-> text, timestamp |-> t]
MessageEv(m) == [type |-> "message", username |-> m.username,
                 message |-> m.message, timestamp |-> m.timestamp]

\* the values new Date() can return when a chat message is received: the
\* clock is read at every new Date() and advanced between two chat messages
Now == {t \in {clock, clock + 1} : t <= MaxClock}

\* sendMessage(ws, data): the outbox after the call
sendMessage(ob, rs, ws, data) ==
    IF rs[ws] = "OPEN" THEN [ob EXCEPT ![ws] = Append(@, data)] ELSE ob

\* sendError(ws, error)
sendError(ob, rs, ws, text) == sendMessage(ob, rs, ws, ErrorEv(text))

\* a mutation of Writable: every registered socket is written to
WritableAny(rs, ws) == TRUE

\* ws.readyState === ws.OPEN in broadcastMessage's loop
Writable(rs, ws) == rs[ws] = "OPEN"

\* a mutation of broadcastMessage: the write to the last socket of the Map
\* overtakes the writes made to it before
broadcastMessageOvertakes(cl, rs, ob, messageData, tag) ==
    /\ outbox' = [c \in Conns |->
                    IF c \in cl /\ Writable(rs, c)
                    THEN IF c = SetMax(cl)
                         THEN <<messageData>> \o ob[c]
                         ELSE Append(ob[c], messageData)
                    ELSE ob[c]]
    /\ clients' = {c \in cl : Writable(rs, c)}
    /\ bcastLog' = Append(bcastLog,
                     [ev |-> messageData, registered |-> cl,
                      to |-> {c \in cl : Writable(rs, c)}, tag |-> tag])

\* broadcastMessage(messageData) on the Map cl, sockets in states rs, outboxes ob.
\* The log entry keeps the payload, the keys of the Map when the loop starts,
\* the sockets written to, and the caller's tag: the socket whose handler made
\* the call, the kind of announcement, and what happened to the store append.
broadcastMessage(cl, rs, ob, messageData, tag) ==
    /\ outbox' = [c \in Conns |->
                    IF c \in cl /\ Writable(rs, c)
                    THEN Append(ob[c], messageData) ELSE ob[c]]
    /\ clients' = {c \in cl : Writable(rs, c)}
    /\ bcastLog' = Append(bcastLog,
                     [ev |-> messageData, registered |-> cl,
                      to |-> {c \in cl : Writable(rs, c)}, tag |-> tag])

Tag(ws, kind, persist) == [by |-> ws, kind |-> kind, persist |-> persist]

-----------------------------------------------------------------------------
(* websocket.js: handlers *)

\* wss.on("connection") -> handleConnection(ws, request); sockets are numbered
\* in the order in which they are accepted
handleConnection(ws) ==
    /\ readyState[ws] = "NEW"
    /\ \A c \in Conns : c < ws => readyState[c] # "NEW"
    /\ readyState' = [readyState EXCEPT ![ws] = "OPEN"]
    /\ username' = [username EXCEPT ![ws] = ANONYMOUS]
    /\ clients' = clients \cup {ws}
    /\ outbox' = sendMessage(outbox, readyState', ws, ConnectionEv)
    /\ UNCHANGED <<messageHistory, store, dbConnected, tasks, clock, nframes,
                   accepted, bcastLog>>

\* Database.isConnected(), the test that guards both awaits
StoreConnected == dbConnected

\* a mutation of JoinFinish: the entry is set again after the await
JoinFinishReinserts(ws, history, name) ==
    /\ outbox' = [c \in Conns |->
                    IF c \in clients /\ Writable(readyState, c)
                    THEN Append(sendMessage(outbox, readyState, ws,
                                            HistoryEv(history))[c],
                                SystemEv(Concat(name, JOINED), clock))
                    ELSE sendMessage(outbox, readyState, ws, HistoryEv(history))[c]]
    /\ clients' = {c \in clients : Writable(readyState, c)} \cup {ws}
    /\ bcastLog' = Append(bcastLog,
                     [ev |-> SystemEv(Concat(name, JOINED), clock),
                      registered |-> clients,
                      to |-> {c \in clients : Writable(readyState, c)},
                      tag |-> Tag(ws, "join", "none")])
    /\ UNCHANGED clock

\* handleUserJoin from line 134 on: the history is sent, the join is announced
JoinFinish(ws, history, name) ==
    /\ broadcastMessage(clients, readyState,
           sendMessage(outbox, readyState, ws, HistoryEv(history)),
           SystemEv(Concat(name, JOINED), clock), Tag(ws, "join", "none"))
    /\ UNCHANGED clock

\* handleUserJoin(ws, username) up to its await
handleUserJoin(ws, uname) ==
    IF ws \notin clients
    THEN UNCHANGED <<clients, username, messageHistory, store, tasks, outbox,
                     clock, accepted, bcastLog>>
    ELSE /\ username' = [username EXCEPT ![ws] = OrElse(uname, ANONYMOUS)]
         /\ UNCHANGED <<messageHistory, store, accepted>>
         /\ IF StoreConnected
            THEN /\ tasks' = Append(tasks, [kind |-> "find", ws |-> ws])
                 /\ UNCHANGED <<clients, outbox, clock, bcastLog>>
            ELSE /\ JoinFinish(ws, SliceLast(messageHistory, HistoryPage),
                               OrElse(uname, ANONYMOUS))
                 /\ UNCHANGED tasks

\* handleUserJoin resumed after await Message.find(): the query resolved
FindResolved(i) ==
    /\ i \in DOMAIN tasks
    /\ tasks[i].kind = "find"
    /\ \E recentMessages \in FindSorted :
           JoinFinish(tasks[i].ws,
               [k \in DOMAIN recentMessages |->
                   [username  |-> Reverse(recentMessages)[k].username,
                    message   |-> Reverse(recentMessages)[k].message,
                    timestamp |-> Reverse(recentMessages)[k].timestamp]],
               username[tasks[i].ws])
    /\ tasks' = RemoveAt(tasks, i)
    /\ UNCHANGED <<username, readyState, messageHistory, store, dbConnected,
                   nframes, accepted>>

\* a mutation of FindRejected: the failure ends the handler with an error to
\* the joiner, no history is sent and nothing is announced
FindRejectedSendsError(i) ==
    /\ i \in DOMAIN tasks
    /\ tasks[i].kind = "find"
    /\ outbox' = sendError(outbox, readyState, tasks[i].ws, E_JOIN)
    /\ tasks' = RemoveAt(tasks, i)
    /\ UNCHANGED <<clients, username, readyState, messageHistory, store,
                   dbConnected, clock, nframes, accepted, bcastLog>>

\* handleUserJoin resumed after await Message.find(): the query rejected (dbError)
FindRejected(i) ==
    /\ i \in DOMAIN tasks
    /\ tasks[i].kind = "find"
    /\ JoinFinish(tasks[i].ws, SliceLast(messageHistory, HistoryPage),
                  username[tasks[i].ws])
    /\ tasks' = RemoveAt(tasks, i)
    /\ UNCHANGED <<username, readyState, messageHistory, store, dbConnected,
                   nframes, accepted>>

\* this.messageHistory.push(messageData) and the truncation to the last 100
PushHistory(history, messageData) ==
    IF Len(Append(history, messageData)) > HistoryRetention
    THEN SliceLast(Append(history, messageData), HistoryRetention)
    ELSE Append(history, messageData)

\* a mutation of MessageFinish: the handler is suspended after the push and
\* the broadcast is not made in the same step
MessageFinishPushOnly(ws, messageData, savedMessage, persist) ==
    /\ messageHistory' = PushHistory(messageHistory, messageData)
    /\ UNCHANGED <<clients, outbox, bcastLog>>

\* handleChatMessage from line 194 on: ring buffer, then broadcast
MessageFinish(ws, messageData, savedMessage, persist) ==
    /\ messageHistory' = PushHistory(messageHistory, messageData)
    /\ broadcastMessage(clients, readyState, outbox, MessageEv(savedMessage),
                        Tag(ws, "message", persist))

\* !message || message.trim().length === 0
BodyEmpty(message) == Falsy(message) \/ StrLen(Trim(message)) = 0

\* a mutation of BodyTooLong: the length is taken after trimming
BodyTooLongAfterTrim(message) == StrLen(Trim(message)) > MaxMessageLength

\* message.length > 1000
BodyTooLong(message) == StrLen(message) > MaxMessageLength

\* handleChatMessage(ws, username, message) up to its await
handleChatMessage(ws, uname, message) ==
    IF ws \notin clients
    THEN UNCHANGED <<clients, username, messageHistory, store, tasks, outbox,
                     clock, accepted, bcastLog>>
    ELSE IF BodyEmpty(message)
    THEN /\ outbox' = sendError(outbox, readyState, ws, E_EMPTY)
         /\ UNCHANGED <<clients, username, messageHistory, store, tasks, clock,
                        accepted, bcastLog>>
    ELSE IF BodyTooLong(message)
    THEN /\ outbox' = sendError(outbox, readyState, ws, E_LONG)
         /\ UNCHANGED <<clients, username, messageHistory, store, tasks, clock,
                        accepted, bcastLog>>
    ELSE \E t \in Now :
         LET messageData == [username  |-> OrElse(uname, username[ws]),
                             message   |-> Trim(message),
                             timestamp |-> t]
         IN  /\ clock' = t
             /\ accepted' = Append(accepted, messageData)
             /\ UNCHANGED <<username, store>>
             /\ IF StoreConnected
                THEN /\ tasks' = Append(tasks, [kind |-> "save", ws |-> ws,
                                                messageData |-> messageData])
                     /\ UNCHANGED <<clients, messageHistory, outbox, bcastLog>>
                ELSE /\ MessageFinish(ws, messageData, messageData, "skipped")
                     /\ UNCHANGED tasks

\* a mutation of SaveResolved: the broadcast uses the fields built locally
SaveResolvedLocalFields(i) ==
    /\ i \in DOMAIN tasks
    /\ tasks[i].kind = "save"
    /\ SchemaValid(messageSchema(tasks[i].messageData))
    /\ store' = Append(store, messageSchema(tasks[i].messageData))
    /\ MessageFinish(tasks[i].ws, tasks[i].messageData, tasks[i].messageData,
                     "saved")
    /\ tasks' = RemoveAt(tasks, i)
    /\ UNCHANGED <<username, readyState, dbConnected, clock, nframes, accepted>>

\* handleChatMessage resumed after await newMessage.save(): the document was saved
SaveResolved(i) ==
    /\ i \in DOMAIN tasks
    /\ tasks[i].kind = "save"
    /\ SchemaValid(messageSchema(tasks[i].messageData))
    /\ store' = Append(store, messageSchema(tasks[i].messageData))
    /\ MessageFinish(tasks[i].ws, tasks[i].messageData,
                     messageSchema(tasks[i].messageData), "saved")
    /\ tasks' = RemoveAt(tasks, i)
    /\ UNCHANGED <<username, readyState, dbConnected, clock, nframes, accepted>>

\* a mutation of SaveRejected: the failure ends the handler with an error to
\* the sender, nothing is pushed or broadcast
SaveRejectedAborts(i) ==
    /\ i \in DOMAIN tasks
    /\ tasks[i].kind = "save"
    /\ outbox' = sendError(outbox, readyState, tasks[i].ws, E_SEND)
    /\ tasks' = RemoveAt(tasks, i)
    /\ UNCHANGED <<clients, username, readyState, messageHistory, store,
                   dbConnected, clock, nframes, accepted, bcastLog>>

\* handleChatMessage resumed after await newMessage.save(): save rejected
\* (validation error or store error), caught and logged
SaveRejected(i) ==
    /\ i \in DOMAIN tasks
    /\ tasks[i].kind = "save"
    /\ MessageFinish(tasks[i].ws, tasks[i].messageData, tasks[i].messageData,
                     "failed")
    /\ tasks' = RemoveAt(tasks, i)
    /\ UNCHANGED <<username, readyState, store, dbConnected, clock, nframes,
                   accepted>>

\* a mutation of handleMessage: a frame of unknown type is dropped silently
handleMessageSilentDefault(ws, data) ==
    IF ~data.ok
    THEN /\ outbox' = sendError(outbox, readyState, ws, E_INVALID)
         /\ UNCHANGED <<clients, username, messageHistory, store, tasks, clock,
                        accepted, bcastLog>>
    ELSE IF data.type = "join" THEN handleUserJoin(ws, data.username)
    ELSE IF data.type = "message"
    THEN handleChatMessage(ws, data.username, data.message)
    ELSE UNCHANGED <<clients, username, messageHistory, store, tasks, outbox,
                     clock, accepted, bcastLog>>

\* a mutation of handleMessage: unparseable data also unregisters the sender
handleMessageDropsSender(ws, data) ==
    IF ~data.ok
    THEN /\ outbox' = sendError(outbox, readyState, ws, E_INVALID)
         /\ clients' = clients \ {ws}
         /\ UNCHANGED <<username, messageHistory, store, tasks, clock,
                        accepted, bcastLog>>
    ELSE IF data.type = "join" THEN handleUserJoin(ws, data.username)
    ELSE IF data.type = "message"
    THEN handleChatMessage(ws, data.username, data.message)
    ELSE /\ outbox' = sendError(outbox, readyState, ws, E_UNKNOWN)
         /\ UNCHANGED <<clients, username, messageHistory, store, tasks, clock,
                        accepted, bcastLog>>

\* handleMessage(ws, messageData) and the try/catch of ws.on("message") around it
handleMessage(ws, data) ==
    IF ~data.ok
    THEN /\ outbox' = sendError(outbox, readyState, ws, E_INVALID)
         /\ UNCHANGED <<clients, username, messageHistory, store, tasks, clock,
                        accepted, bcastLog>>
    ELSE IF data.type = "join" THEN handleUserJoin(ws, data.username)
    ELSE IF data.type = "message"
    THEN handleChatMessage(ws, data.username, data.message)
    ELSE /\ outbox' = sendError(outbox, readyState, ws, E_UNKNOWN)
         /\ UNCHANGED <<clients, username, messageHistory, store, tasks, clock,
                        accepted, bcastLog>>

\* ws.on("message"): a frame arrives on an open socket
OnMessage(ws, data) ==
    /\ readyState[ws] = "OPEN"
    /\ nframes < MaxFrames
    /\ nframes' = nframes + 1
    /\ handleMessage(ws, data)
    /\ UNCHANGED <<readyState, dbConnected>>

\* a mutation of handleDisconnection: the leave is broadcast before the entry
\* is deleted
handleDisconnectionKeepsEntry(ws) ==
    /\ broadcastMessage(clients, readyState', outbox,
           SystemEv(Concat(IF ws \in clients
                           THEN OrElse(username[ws], ANONYMOUS)
                           ELSE ANONYMOUS, LEFT), clock), Tag(ws, "leave", "none"))
    /\ UNCHANGED clock

\* handleDisconnection(ws)
handleDisconnection(ws) ==
    /\ broadcastMessage(clients \ {ws}, readyState', outbox,
           SystemEv(Concat(IF ws \in clients
                           THEN OrElse(username[ws], ANONYMOUS)
                           ELSE ANONYMOUS, LEFT), clock), Tag(ws, "leave", "none"))
    /\ UNCHANGED clock

\* an open socket may stop being open
CanDrop ==
    Cardinality({c \in Conns : readyState[c] \in {"CLOSING", "CLOSED"}}) < MaxDrops

\* the transport of an open socket starts closing; no callback has run yet
TransportClosing(ws) ==
    /\ readyState[ws] = "OPEN"
    /\ CanDrop
    /\ readyState' = [readyState EXCEPT ![ws] = "CLOSING"]
    /\ UNCHANGED <<clients, username, messageHistory, store, dbConnected, tasks,
                   outbox, clock, nframes, accepted, bcastLog>>

\* ws.on("close")
OnClose(ws) ==
    /\ readyState[ws] \in {"OPEN", "CLOSING"}
    /\ readyState[ws] = "OPEN" => CanDrop
    /\ readyState' = [readyState EXCEPT ![ws] = "CLOSED"]
    /\ handleDisconnection(ws)
    /\ UNCHANGED <<username, messageHistory, store, dbConnected, tasks, nframes,
                   accepted>>

\* ws.on("error"): the socket is closing when the callback runs, and its
\* "close" follows later
OnError(ws) ==
    /\ readyState[ws] = "OPEN"
    /\ CanDrop
    /\ readyState' = [readyState EXCEPT ![ws] = "CLOSING"]
    /\ handleDisconnection(ws)
    /\ UNCHANGED <<username, messageHistory, store, dbConnected, tasks, nframes,
                   accepted>>

\* the store connects or disconnects
StoreFlips ==
    /\ dbConnected' = ~dbConnected
    /\ UNCHANGED <<clients, username, readyState, messageHistory, store, tasks,
                   outbox, clock, nframes, accepted, bcastLog>>

-----------------------------------------------------------------------------
(* README.md: ChatInterface, the client connection logic *)

\* the frames a client sends, as JSON.parse returns them on the server:
\* JSON.stringify({type: "join", username}) and
\* JSON.stringify({type: "message", username, message})
JoinFrame(uname) ==
    [ok |-> TRUE, type |-> "join", username |-> uname, message |-> Undefined]
MessageFrame(uname, message) ==
    [ok |-> TRUE, type |-> "message", username |-> uname, message |-> message]

\* const maxReconnectAttempts = 5
maxReconnectAttempts == 5
\* the base of the backoff: 1000 * Math.pow(2, attempts - 1)
BackoffBase == 1000
\* the ceiling of the backoff: Math.min(..., 10000)
BackoffCeiling == 10000

NoError == [text |-> "null", n |-> 0]
ErrTimeout == [text |-> "Connection timeout. Please try again.", n |-> 0]
ErrFailed == [text |-> "Failed to connect to chat server. Please check your connection.", n |-> 0]
ErrLost(k) == [text |-> "Connection lost. Reconnecting...", n |-> k]
ErrUnable == [text |-> "Unable to connect to chat server. Please refresh the page to try again.", n |-> 0]
ErrTooLong == [text |-> "Message too long (max 1000 characters)", n |-> 0]
ErrSend == [text |-> "Failed to send message", n |-> 0]

\* the username prop of ChatInterface: App renders the component only with the
\* name UsernameForm submitted, which is trimmed and of 2 to 20 characters
usernameProp == Lit(<<"a", "l">>)

\* a mutation of ReconnectDelay: the backoff has no ceiling
ReconnectDelayNoCeiling(attempts) == BackoffBase * 2 ^ (attempts - 1)

\* Math.min(1000 * Math.pow(2, reconnectAttempts.current - 1), 10000)
ReconnectDelay(attempts) ==
    IF BackoffBase * 2 ^ (attempts - 1) < BackoffCeiling
    THEN BackoffBase * 2 ^ (attempts - 1) ELSE BackoffCeiling

\* a React state setter: ignored once the component is unmounted
SetState(old, new) == IF mounted = "unmounted" THEN old ELSE new

Live(k) == sockets[k].readyState \in {"CONNECTING", "OPEN"}

\* connectWebSocket as the closure of a render in which isConnecting and
\* isConnected had the values cap.isConnecting and cap.isConnected
connectWebSocket(cap) ==
    IF cap.isConnecting \/ cap.isConnected
    THEN UNCHANGED <<isConnecting, error, sockets, wsRef>>
    ELSE /\ isConnecting' = SetState(isConnecting, TRUE)
         /\ error' = SetState(error, NoError)
         /\ sockets' = Append(sockets, [readyState |-> "CONNECTING",
                                        connectionTimeout |-> TRUE,
                                        established |-> FALSE,
                                        sent |-> <<>>,
                                        cap |-> cap])
         /\ wsRef' = Len(sockets) + 1

\* the effect on [username], run after the first render
MountEffect ==
    /\ mounted = "rendered"
    /\ mounted' = "mounted"
    /\ IF ~isConnected /\ ~isConnecting
       THEN connectWebSocket([isConnecting |-> isConnecting,
                              isConnected |-> isConnected])
       ELSE UNCHANGED <<isConnecting, error, sockets, wsRef>>
    /\ UNCHANGED <<isConnected, timers, reconnectTimeoutRef, reconnectAttempts,
                   clicks, delays>>

\* the Reconnect button, rendered while !isConnected && !isConnecting
ReconnectButton ==
    /\ mounted = "mounted"
    /\ ~isConnected /\ ~isConnecting
    /\ Len(sockets) < MaxSockets
    /\ clicks < MaxClicks
    /\ clicks' = clicks + 1
    /\ connectWebSocket([isConnecting |-> isConnecting, isConnected |-> isConnected])
    /\ UNCHANGED <<mounted, isConnected, timers, reconnectTimeoutRef,
                   reconnectAttempts, delays>>

\* the reconnect timeout set by onclose fires: () => connectWebSocket()
ReconnectTimerFires(id) ==
    /\ \E tm \in timers :
         /\ tm.id = id
         /\ timers' = timers \ {tm}
         /\ connectWebSocket(tm.cap)
    /\ Len(sockets) < MaxSockets
    /\ UNCHANGED <<mounted, isConnected, reconnectTimeoutRef, reconnectAttempts,
                   clicks, delays>>

\* a mutation of onopen: no join frame is sent
onopenNoJoin(k) ==
    /\ k \in DOMAIN sockets
    /\ sockets[k].readyState = "CONNECTING"
    /\ sockets' = [sockets EXCEPT ![k].readyState = "OPEN",
                                  ![k].connectionTimeout = FALSE,
                                  ![k].established = TRUE]
    /\ isConnected' = SetState(isConnected, TRUE)
    /\ isConnecting' = SetState(isConnecting, FALSE)
    /\ error' = SetState(error, NoError)
    /\ reconnectAttempts' = 0
    /\ delays' = <<>>
    /\ UNCHANGED <<mounted, wsRef, timers, reconnectTimeoutRef, clicks>>

\* ws.onopen
onopen(k) ==
    /\ k \in DOMAIN sockets
    /\ sockets[k].readyState = "CONNECTING"
    /\ sockets' = [sockets EXCEPT
                     ![k].readyState = "OPEN",
                     ![k].connectionTimeout = FALSE,
                     ![k].established = TRUE,
                     ![k].sent = IF Falsy(Trim(usernameProp)) THEN @
                                 ELSE Append(@, JoinFrame(Trim(usernameProp)))]
    /\ isConnected' = SetState(isConnected, TRUE)
    /\ isConnecting' = SetState(isConnecting, FALSE)
    /\ error' = SetState(error, NoError)
    /\ reconnectAttempts' = 0
    /\ delays' = <<>>
    /\ UNCHANGED <<mounted, wsRef, timers, reconnectTimeoutRef, clicks>>

\* the connectionTimeout of socket k fires after 10 s
ConnectionTimeoutFires(k) ==
    /\ k \in DOMAIN sockets
    /\ sockets[k].connectionTimeout
    /\ IF sockets[k].readyState = "CONNECTING"
       THEN /\ sockets' = [sockets EXCEPT ![k].readyState = "CLOSING",
                                          ![k].connectionTimeout = FALSE]
            /\ error' = SetState(error, ErrTimeout)
            /\ isConnecting' = SetState(isConnecting, FALSE)
       ELSE /\ sockets' = [sockets EXCEPT ![k].connectionTimeout = FALSE]
            /\ UNCHANGED <<error, isConnecting>>
    /\ UNCHANGED <<mounted, isConnected, wsRef, timers, reconnectTimeoutRef,
                   reconnectAttempts, clicks, delays>>

\* the id setTimeout returns: one that no pending timer has
FreshTimer == SetMin({i \in 1..(Cardinality(timers) + 1) :
                        \A tm \in timers : tm.id # i})

\* a mutation of Retries: the number of attempts is not tested
RetriesUnbounded(wasClean) == ~wasClean

\* a mutation of Retries: the test of event.wasClean is inverted
RetriesWhenClean(wasClean) == wasClean /\ reconnectAttempts < maxReconnectAttempts

\* the reconnect branch of ws.onclose is taken
Retries(wasClean) == ~wasClean /\ reconnectAttempts < maxReconnectAttempts

\* socket k closes: ws.onerror (when the connection failed) and ws.onclose run
\* in the same task
onclose(k, wasClean) ==
    /\ k \in DOMAIN sockets
    /\ sockets[k].readyState # "CLOSED"
    \* a socket that never opened cannot close cleanly
    /\ wasClean => sockets[k].established
    /\ sockets' = [sockets EXCEPT ![k].readyState = "CLOSED",
                                  ![k].connectionTimeout = FALSE,
                                  ![k].established = FALSE]
    /\ isConnected' = SetState(isConnected, FALSE)
    /\ isConnecting' = SetState(isConnecting, FALSE)
    /\ IF Retries(wasClean)
       THEN /\ reconnectAttempts' = reconnectAttempts + 1
            /\ error' = SetState(error, ErrLost(reconnectAttempts'))
            /\ timers' = timers \cup {[id |-> FreshTimer, cap |-> sockets[k].cap,
                                       delay |-> ReconnectDelay(reconnectAttempts')]}
            /\ reconnectTimeoutRef' = FreshTimer
            /\ delays' = Append(delays, ReconnectDelay(reconnectAttempts'))
       ELSE /\ error' = SetState(error,
                          IF reconnectAttempts >= maxReconnectAttempts THEN ErrUnable
                          ELSE IF wasClean THEN error ELSE ErrFailed)
            /\ UNCHANGED <<reconnectAttempts, timers, reconnectTimeoutRef, delays>>
    /\ UNCHANGED <<mounted, wsRef, clicks>>

\* sendMessage of ChatInterface with the text currentMessage in the input.
\* send() throws on a socket that is still connecting and discards the data
\* on one that is closing or closed.
ChatInterface_sendMessage(currentMessage) ==
    /\ mounted = "mounted"
    /\ wsRef # 0 => Len(sockets[wsRef].sent) < MaxSent
    /\ IF Falsy(Trim(currentMessage)) \/ ~isConnected \/ wsRef = 0
       THEN UNCHANGED <<error, sockets>>
       ELSE IF StrLen(currentMessage) > MaxMessageLength
       THEN error' = ErrTooLong /\ UNCHANGED sockets
       ELSE IF sockets[wsRef].readyState = "CONNECTING"
       THEN error' = ErrSend /\ UNCHANGED sockets
       ELSE /\ error' = NoError
            /\ sockets' = [sockets EXCEPT ![wsRef].sent =
                              IF sockets[wsRef].readyState = "OPEN"
                              THEN Append(@, MessageFrame(
                                               OrElse(Trim(usernameProp), ANONYMOUS),
                                               Trim(currentMessage)))
                              ELSE @]
    /\ UNCHANGED <<mounted, isConnected, isConnecting, wsRef, timers,
                   reconnectTimeoutRef, reconnectAttempts, clicks, delays>>

SYSTEM == Lit(<<"S", "y", "s", "t", "e", "m">>)
ERROR_PREFIX == Lit(<<"E", "r", "r", "o", "r", ":", " ">>)

\* new Date(timestamp).toISOString() of a timestamp the server serialized:
\* the ISO string of the same millisecond
toISOString(t) == [iso |-> t]

\* the entry the client makes of a chat message
Entry(msg) ==
    [username |-> msg.username, message |-> msg.message,
     timestamp |-> toISOString(msg.timestamp), type |-> "message"]

\* prev.some(...) in the "message" case
Exists(prev, data) ==
    \E i \in DOMAIN prev :
        /\ prev[i].timestamp = toISOString(data.timestamp)
        /\ prev[i].username = data.username
        /\ prev[i].message = data.message

\* a mutation of handleWebSocketMessage: a message event is always appended
handleWebSocketMessageNoDedup(prev, data, now) ==
    CASE data.type = "history" ->
           [k \in DOMAIN data.messages |-> Entry(data.messages[k])]
      [] data.type = "message" -> Append(prev, Entry(data))
      [] data.type = "system" ->
           Append(prev, [username |-> SYSTEM, message |-> data.message,
                         timestamp |-> toISOString(data.timestamp),
                         type |-> "system"])
      [] data.type = "error" ->
           Append(prev, [username |-> SYSTEM,
                         message |-> Concat(ERROR_PREFIX, data.message),
                         timestamp |-> toISOString(now), type |-> "error"])
      [] OTHER -> prev

\* handleWebSocketMessage(data): the list after the setMessages call it makes
\* on the list prev, new Date() returning now
handleWebSocketMessage(prev, data, now) ==
    CASE data.type = "history" ->
           [k \in DOMAIN data.messages |-> Entry(data.messages[k])]
      [] data.type = "message" ->
           IF Exists(prev, data) THEN prev ELSE Append(prev, Entry(data))
      [] data.type = "system" ->
           Append(prev, [username |-> SYSTEM, message |-> data.message,
                         timestamp |-> toISOString(data.timestamp),
                         type |-> "system"])
      [] data.type = "error" ->
           Append(prev, [username |-> SYSTEM,
                         message |-> Concat(ERROR_PREFIX, data.message),
                         timestamp |-> toISOString(now), type |-> "error"])
      [] OTHER -> prev

\* setError(data.message) in the "error" case
ErrServer(text) ==
    [text |-> IF text = E_EMPTY THEN "Message cannot be empty"
              ELSE IF text = E_LONG THEN "Message too long (max 1000 characters)"
              ELSE IF text = E_UNKNOWN THEN "Unknown message type"
              ELSE "Invalid message format",
     n |-> 0]

\* ws.onmessage of socket k: the event data arrives and is handled
onmessage(k, data, now) ==
    /\ k \in DOMAIN sockets
    /\ sockets[k].readyState \in {"OPEN", "CLOSING"}
    /\ Len(received) < MaxReceived
    /\ received' = Append(received, data)
    /\ messages' = SetState(messages, handleWebSocketMessage(messages, data, now))
    /\ error' = IF data.type = "error"
                THEN SetState(error, ErrServer(data.message)) ELSE error
    /\ UNCHANGED <<mounted, isConnected, isConnecting, sockets, wsRef, timers,
                   reconnectTimeoutRef, reconnectAttempts, clicks, delays>>

\* the list of a client that has handled the events evs in order
RECURSIVE Handled(_)
Handled(evs) ==
    IF evs = <<>> THEN <<>>
    ELSE handleWebSocketMessage(Handled(SubSeq(evs, 1, Len(evs) - 1)),
                                evs[Len(evs)], 0)

\* the cleanup of the effect on [username]: the user leaves the chat
EffectCleanup ==
    /\ mounted = "mounted"
    /\ mounted' = "unmounted"
    /\ timers' = {tm \in timers : tm.id # reconnectTimeoutRef}
    /\ sockets' = [k \in DOMAIN sockets |->
                     IF k = wsRef /\ Live(k)
                     THEN [sockets[k] EXCEPT !.readyState = "CLOSING"]
                     ELSE sockets[k]]
    /\ UNCHANGED <<isConnected, isConnecting, error, wsRef, reconnectTimeoutRef,
                   reconnectAttempts, clicks, delays>>

-----------------------------------------------------------------------------
(* Specifications *)

\* the frames of Spec: a join and a chat message that needs trimming
CoreFrames ==
    {JoinFrame(Lit(<<"a">>)), MessageFrame(Undefined, Lit(<<" ", "h">>))}

\* the bodies of BodySpec: absent, empty, blank, short, of 1000 and of 1001
\* characters, and of 1000 characters after a space
Bodies ==
    {Undefined, <<>>, Rep(" ", 3), Lit(<<"h", " ">>), Rep("a", MaxMessageLength),
     Rep("a", MaxMessageLength + 1),
     Concat(Rep(" ", 1), Rep("a", MaxMessageLength))}
BodyFrames ==
    {JoinFrame(Undefined)} \cup {MessageFrame(Lit(<<"b">>), m) : m \in Bodies}

\* a parsed frame whose type is neither "join" nor "message"
UnknownFrame ==
    [ok |-> TRUE, type |-> "typing", username |-> Undefined, message |-> Undefined]
\* data on which JSON.parse throws
BadFrame ==
    [ok |-> FALSE, type |-> "none", username |-> Undefined, message |-> Undefined]

\* the frames of ProtocolSpec: joins without a name, with an empty and with a
\* blank name, a frame of unknown type, unparseable data, and chat messages
\* without a name and with a name of 51 characters
ProtocolFrames ==
    {JoinFrame(Undefined), JoinFrame(<<>>), JoinFrame(Rep(" ", 2)),
     UnknownFrame, BadFrame,
     MessageFrame(Undefined, Lit(<<"h">>)),
     MessageFrame(Rep("u", MaxUsernameLength + 1), Lit(<<"h">>))}

\* the frames of NameSpec: a join with a name, a chat message that names
\* another sender (with a leading space) and a chat message that names none
NameFrames ==
    {JoinFrame(Lit(<<"a">>)),
     MessageFrame(Lit(<<" ", "b">>), Lit(<<"h">>)),
     MessageFrame(Undefined, Lit(<<"h">>))}

Init ==
    /\ clients = {}
    /\ username = [c \in Conns |-> ANONYMOUS]
    /\ readyState = [c \in Conns |-> "NEW"]
    /\ messageHistory = <<>>
    /\ store = <<>>
    /\ dbConnected \in BOOLEAN
    /\ tasks = <<>>
    /\ outbox = [c \in Conns |-> <<>>]
    /\ clock = 0
    /\ nframes = 0
    /\ accepted = <<>>
    /\ bcastLog = <<>>
    /\ mounted = "rendered"
    /\ isConnected = FALSE
    /\ isConnecting = FALSE
    /\ error = NoError
    /\ sockets = <<>>
    /\ wsRef = 0
    /\ timers = {}
    /\ reconnectTimeoutRef = 0
    /\ reconnectAttempts = 0
    /\ clicks = 0
    /\ delays = <<>>
    /\ messages = <<>>
    /\ received = <<>>
    /\ joinMark = [c \in Conns |-> -1]

Next ==
    \/ \E ws \in Conns : handleConnection(ws) /\ UNCHANGED <<clientVars, uiVars>>
    \/ \E ws \in Conns, data \in CoreFrames :
          nframes < MaxCoreFrames /\ OnMessage(ws, data) /\ UNCHANGED <<clientVars, uiVars>>
    \/ \E i \in 1..MaxFrames : FindResolved(i) /\ UNCHANGED <<clientVars, uiVars>>
    \/ \E i \in 1..MaxFrames : FindRejected(i) /\ UNCHANGED <<clientVars, uiVars>>
    \/ \E i \in 1..MaxFrames : SaveResolved(i) /\ UNCHANGED <<clientVars, uiVars>>
    \/ \E i \in 1..MaxFrames : SaveRejected(i) /\ UNCHANGED <<clientVars, uiVars>>
    \/ \E ws \in Conns : TransportClosing(ws) /\ UNCHANGED <<clientVars, uiVars>>
    \/ \E ws \in Conns : OnClose(ws) /\ UNCHANGED <<clientVars, uiVars>>
    \/ \E ws \in Conns : OnError(ws) /\ UNCHANGED <<clientVars, uiVars>>
    \/ StoreFlips /\ UNCHANGED <<clientVars, uiVars>>

\* the server, its frames drawn from CoreFrames
Spec == Init /\ [][Next]_vars

SteadyNext ==
    \/ \E ws \in Conns : handleConnection(ws) /\ UNCHANGED <<clientVars, uiVars>>
    \/ \E ws \in Conns, data \in CoreFrames :
          OnMessage(ws, data) /\ UNCHANGED <<clientVars, uiVars>>
    \/ \E i \in 1..MaxFrames : FindResolved(i) /\ UNCHANGED <<clientVars, uiVars>>
    \/ \E i \in 1..MaxFrames : FindRejected(i) /\ UNCHANGED <<clientVars, uiVars>>
    \/ \E i \in 1..MaxFrames : SaveResolved(i) /\ UNCHANGED <<clientVars, uiVars>>
    \/ \E i \in 1..MaxFrames : SaveRejected(i) /\ UNCHANGED <<clientVars, uiVars>>
    \/ StoreFlips /\ UNCHANGED <<clientVars, uiVars>>

\* the server while no socket closes or fails: longer runs of frames
SteadySpec == Init /\ [][SteadyNext]_vars

BodyNext ==
    \/ \E ws \in Conns : handleConnection(ws) /\ UNCHANGED <<clientVars, uiVars>>
    \/ \E ws \in Conns, data \in BodyFrames :
          nframes < MaxBodyFrames /\ OnMessage(ws, data) /\ UNCHANGED <<clientVars, uiVars>>
    \/ \E i \in 1..MaxFrames : FindResolved(i) /\ UNCHANGED <<clientVars, uiVars>>
    \/ \E i \in 1..MaxFrames : FindRejected(i) /\ UNCHANGED <<clientVars, uiVars>>
    \/ \E i \in 1..MaxFrames : SaveResolved(i) /\ UNCHANGED <<clientVars, uiVars>>
    \/ \E i \in 1..MaxFrames : SaveRejected(i) /\ UNCHANGED <<clientVars, uiVars>>
    \/ \E ws \in Conns : TransportClosing(ws) /\ UNCHANGED <<clientVars, uiVars>>
    \/ \E ws \in Conns : OnClose(ws) /\ UNCHANGED <<clientVars, uiVars>>
    \/ \E ws \in Conns : OnError(ws) /\ UNCHANGED <<clientVars, uiVars>>
    \/ StoreFlips /\ UNCHANGED <<clientVars, uiVars>>

\* the server, its frames drawn from BodyFrames
BodySpec == Init /\ [][BodyNext]_vars

ProtocolNext ==
    \/ \E ws \in Conns : handleConnection(ws) /\ UNCHANGED <<clientVars, uiVars>>
    \/ \E ws \in Conns, data \in ProtocolFrames :
          nframes < MaxProtocolFrames /\ OnMessage(ws, data) /\ UNCHANGED <<clientVars, uiVars>>
    \/ \E i \in 1..MaxFrames : FindResolved(i) /\ UNCHANGED <<clientVars, uiVars>>
    \/ \E i \in 1..MaxFrames : FindRejected(i) /\ UNCHANGED <<clientVars, uiVars>>
    \/ \E i \in 1..MaxFrames : SaveResolved(i) /\ UNCHANGED <<clientVars, uiVars>>
    \/ \E i \in 1..MaxFrames : SaveRejected(i) /\ UNCHANGED <<clientVars, uiVars>>
    \/ StoreFlips /\ UNCHANGED <<clientVars, uiVars>>

\* the server while no socket closes or fails, its frames drawn from ProtocolFrames
ProtocolSpec == Init /\ [][ProtocolNext]_vars

NameNext ==
    \/ \E ws \in Conns : handleConnection(ws) /\ UNCHANGED <<clientVars, uiVars>>
    \/ \E ws \in Conns, data \in NameFrames :
          OnMessage(ws, data) /\ UNCHANGED <<clientVars, uiVars>>
    \/ \E i \in 1..MaxFrames : FindResolved(i) /\ UNCHANGED <<clientVars, uiVars>>
    \/ \E i \in 1..MaxFrames : FindRejected(i) /\ UNCHANGED <<clientVars, uiVars>>
    \/ \E i \in 1..MaxFrames : SaveResolved(i) /\ UNCHANGED <<clientVars, uiVars>>
    \/ \E i \in 1..MaxFrames : SaveRejected(i) /\ UNCHANGED <<clientVars, uiVars>>
    \/ \E ws \in Conns : OnClose(ws) /\ UNCHANGED <<clientVars, uiVars>>
    \/ \E ws \in Conns : OnError(ws) /\ UNCHANGED <<clientVars, uiVars>>

\* the server while the store neither connects nor disconnects, its frames
\* drawn from NameFrames
NameSpec == Init /\ [][NameNext]_vars

\* the texts typed into the input: blank, one that needs trimming, and one of
\* 1001 characters
ClientBodies ==
    {Lit(<<" ">>), Lit(<<"h", " ">>), Rep("a", MaxMessageLength + 1)}

ClientNext ==
    \/ MountEffect /\ UNCHANGED <<serverVars, uiVars>>
    \/ ReconnectButton /\ UNCHANGED <<serverVars, uiVars>>
    \/ \E id \in 1..MaxSockets : ReconnectTimerFires(id) /\ UNCHANGED <<serverVars, uiVars>>
    \/ \E k \in 1..MaxSockets : onopen(k) /\ UNCHANGED <<serverVars, uiVars>>
    \/ \E k \in 1..MaxSockets : ConnectionTimeoutFires(k) /\ UNCHANGED <<serverVars, uiVars>>
    \/ \E k \in 1..MaxSockets, wasClean \in BOOLEAN :
          onclose(k, wasClean) /\ UNCHANGED <<serverVars, uiVars>>
    \/ EffectCleanup /\ UNCHANGED <<serverVars, uiVars>>
    \/ \E currentMessage \in ClientBodies :
          ChatInterface_sendMessage(currentMessage) /\ UNCHANGED <<serverVars, uiVars>>

\* one ChatInterface
ClientSpec == Init /\ [][ClientNext]_vars

\* the events of UiSpec: chat messages of two senders at two instants, one
\* under the name the client gives to system entries, a history of no and of
\* one message, an announcement and an error
UiEvents ==
    {MessageEv([username |-> u, message |-> Lit(<<"h">>), timestamp |-> t]) :
        u \in {Lit(<<"a">>), Lit(<<"b">>)}, t \in 0..MaxClock}
    \cup {MessageEv([username |-> SYSTEM, message |-> Concat(Lit(<<"a">>), JOINED),
                     timestamp |-> 0]),
          HistoryEv(<<>>),
          HistoryEv(<<[username |-> Lit(<<"a">>), message |-> Lit(<<"h">>),
                       timestamp |-> 0]>>),
          SystemEv(Concat(Lit(<<"a">>), JOINED), 0),
          ErrorEv(E_EMPTY),
          ConnectionEv}

UiNext ==
    \/ MountEffect /\ UNCHANGED <<serverVars, uiVars>>
    \/ \E k \in 1..MaxSockets : onopen(k) /\ UNCHANGED <<serverVars, uiVars>>
    \/ \E k \in 1..MaxSockets, data \in UiEvents, now \in 0..MaxClock :
          onmessage(k, data, now) /\ UNCHANGED <<serverVars, joinMark>>

\* one ChatInterface whose socket opened, handling events
UiSpec == Init /\ [][UiNext]_vars

\* the arrival of a join frame on ws is marked in joinMark
MarkJoin(ws, data) ==
    joinMark' = IF data.ok /\ data.type = "join" /\ joinMark[ws] < 0
                THEN [joinMark EXCEPT ![ws] = Len(outbox[ws])]
                ELSE joinMark

RaceNext ==
    \/ \E ws \in Conns : handleConnection(ws) /\ UNCHANGED <<clientVars, uiVars>>
    \/ \E ws \in Conns, data \in CoreFrames :
          /\ OnMessage(ws, data)
          /\ MarkJoin(ws, data)
          /\ UNCHANGED <<clientVars, messages, received>>
    \/ \E i \in 1..MaxFrames : FindResolved(i) /\ UNCHANGED <<clientVars, uiVars>>
    \/ \E i \in 1..MaxFrames : FindRejected(i) /\ UNCHANGED <<clientVars, uiVars>>
    \/ \E i \in 1..MaxFrames : SaveResolved(i) /\ UNCHANGED <<clientVars, uiVars>>
    \/ \E i \in 1..MaxFrames : SaveRejected(i) /\ UNCHANGED <<clientVars, uiVars>>
    \/ StoreFlips /\ UNCHANGED <<clientVars, uiVars>>

\* the server while no socket closes or fails, joins marked
RaceSpec == Init /\ [][RaceNext]_vars

-----------------------------------------------------------------------------
(* Claims about the server *)

IsBlank(m) == \A i \in DOMAIN m : IsSpace(m[i].c)

\* a body that is absent, empty, whitespace-only or longer than 1000 characters
InvalidBody(m) == m = Undefined \/ IsBlank(m) \/ StrLen(m) > MaxMessageLength

\* a body as it may be stored or broadcast: not blank, at most 1000 characters
SoundBody(m) == m # Undefined /\ ~IsBlank(m) /\ StrLen(m) <= MaxMessageLength

C1_NoInvalidBodyAnywhere ==
    /\ \A i \in DOMAIN messageHistory : SoundBody(messageHistory[i].message)
    /\ \A i \in DOMAIN store : SoundBody(store[i].message)
    /\ \A c \in Conns : \A i \in DOMAIN outbox[c] :
         /\ outbox[c][i].type = "message" => SoundBody(outbox[c][i].message)
         /\ outbox[c][i].type = "history" =>
              \A k \in DOMAIN outbox[c][i].messages :
                  SoundBody(outbox[c][i].messages[k].message)

C1_RejectionStep ==
    \A ws \in Conns, data \in BodyFrames :
        (data.type = "message" /\ InvalidBody(data.message) /\ OnMessage(ws, data))
        => /\ \E text \in {E_EMPTY, E_LONG} :
                outbox' = [outbox EXCEPT ![ws] = Append(@, ErrorEv(text))]
           /\ UNCHANGED <<clients, username, messageHistory, store, tasks,
                          accepted, bcastLog>>

\* C1: a message frame whose body is absent, empty, whitespace-only or longer
\* than 1000 characters makes the server send one error event to the sender and
\* change nothing else (registry, ring buffer, store, pending handlers, other
\* sockets, broadcasts); no such body is ever in the ring buffer, the store, a
\* message event or a history event.
C1_InvalidBodyRejected == []C1_NoInvalidBodyAnywhere /\ [][C1_RejectionStep]_vars

\* C1 witness: both kinds of rejection happened, and nothing was broadcast or
\* buffered for them
C1_Witness ==
    \E c \in Conns :
        /\ \E i \in DOMAIN outbox[c] : outbox[c][i] = ErrorEv(E_LONG)
        /\ \E i \in DOMAIN outbox[c] : outbox[c][i] = ErrorEv(E_EMPTY)
        /\ messageHistory = <<>>
        /\ nframes = 2

\* C2 (the claim as stated): the ring buffer holds at most 100 entries and,
\* once no append is in flight, exactly the last 100 accepted messages in the
\* order in which the server received them.
C2_RingBufferInReceiptOrder ==
    /\ Len(messageHistory) <= HistoryRetention
    /\ (\A i \in DOMAIN tasks : tasks[i].kind # "save")
         => messageHistory = SliceLast(accepted, HistoryRetention)

\* C3 (the claim as stated): every history event holds at most 50 messages,
\* ordered oldest to newest.
C3_HistoryBoundedAndOrdered ==
    \A c \in Conns : \A i \in DOMAIN outbox[c] :
        outbox[c][i].type = "history" =>
            /\ Len(outbox[c][i].messages) <= HistoryPage
            /\ \A a, b \in DOMAIN outbox[c][i].messages :
                 a < b => outbox[c][i].messages[a].timestamp
                            <= outbox[c][i].messages[b].timestamp

C4_BroadcastStep ==
    Len(bcastLog') = Len(bcastLog) + 1 =>
        \A c \in Last(bcastLog').registered :
            IF readyState'[c] = "OPEN"
            THEN /\ c \in clients'
                 /\ Len(outbox'[c]) > Len(outbox[c])
                 /\ Last(outbox'[c]) = Last(bcastLog').ev
            ELSE /\ c \notin clients'
                 /\ outbox'[c] = outbox[c]

\* C4: one broadcast hands the same payload to every registered socket that is
\* open at that moment; a registered socket that is not open is removed from the
\* registry and is handed nothing, and the others are still served.
C4_BroadcastDeliversOrPrunes == [][C4_BroadcastStep]_vars

\* C4 witness: a chat message was broadcast while one registered socket was not
\* writable and another was
C4_Witness ==
    \E i \in DOMAIN bcastLog :
        /\ bcastLog[i].tag.kind = "message"
        /\ bcastLog[i].to # {}
        /\ bcastLog[i].registered \ bcastLog[i].to # {}

LeaveEntries(c) ==
    {i \in DOMAIN bcastLog :
        bcastLog[i].tag.kind = "leave" /\ bcastLog[i].tag.by = c}

\* C5 (the claim as stated): for a session that joined and whose socket has
\* closed, exactly one leave event was broadcast, and it names the display name
\* the session last set by join.
C5_ExactlyOneLeave ==
    \A c \in Conns :
        (readyState[c] = "CLOSED" /\ username[c] # ANONYMOUS) =>
            /\ Cardinality(LeaveEntries(c)) = 1
            /\ \A i \in LeaveEntries(c) :
                 bcastLog[i].ev.message = Concat(username[c], LEFT)

\* C9 (the claim as stated): an accepted message has been broadcast while its
\* store append is still in flight.
C9_BroadcastDoesNotWait ==
    \A i \in DOMAIN tasks :
        tasks[i].kind = "save" =>
            \E j \in DOMAIN bcastLog :
                /\ bcastLog[j].tag.kind = "message"
                /\ bcastLog[j].ev = MessageEv(tasks[i].messageData)

C10_FailureStep ==
    \A i \in DOMAIN tasks :
        (tasks[i].kind = "save" /\ tasks' = RemoveAt(tasks, i) /\ store' = store)
        => /\ messageHistory' =
                SliceLast(Append(messageHistory, tasks[i].messageData),
                          HistoryRetention)
           /\ \A c \in Conns :
                IF c \in clients /\ readyState[c] = "OPEN"
                THEN outbox'[c] = Append(outbox[c], MessageEv(tasks[i].messageData))
                ELSE outbox'[c] = outbox[c]

\* C10: when the store append of an accepted message fails, the message is
\* appended to the ring buffer and broadcast to every open registered socket
\* with the locally built fields, and no socket is sent anything else (no error
\* event).
C10_AppendFailureStillDelivers == [][C10_FailureStep]_vars

\* C10 witness: a message whose append failed was broadcast to some socket and
\* is in the ring buffer while the store is empty
C10_Witness ==
    \E j \in DOMAIN bcastLog :
        /\ bcastLog[j].tag.persist = "failed"
        /\ bcastLog[j].to # {}
        /\ store = <<>>
        /\ Len(messageHistory) = 1

C11_FallbackJoinStep ==
    \A ws \in Conns, data \in CoreFrames :
        (data.type = "join" /\ ~dbConnected /\ OnMessage(ws, data))
        => /\ Len(outbox'[ws]) = Len(outbox[ws]) + 2
           /\ outbox'[ws][Len(outbox[ws]) + 1].type = "history"
           /\ LET sent == outbox'[ws][Len(outbox[ws]) + 1].messages
                  last == SliceLast(accepted, HistoryPage)
              IN  /\ Len(sent) = Len(last)
                  /\ \A k \in DOMAIN last : \E j \in DOMAIN sent : sent[j] = last[k]

\* C11 (the claim as stated): a socket that joins while the store is
\* disconnected is sent a history holding the last min(50, n) accepted messages,
\* those accepted while the store was connected included.
C11_FallbackHistoryComplete == [][C11_FallbackJoinStep]_vars

C12_JoinAnnouncedStep ==
    (Len(bcastLog') = Len(bcastLog) + 1 /\ Last(bcastLog').tag.kind = "join")
    => LET e == Last(bcastLog')
           ws == Last(bcastLog').tag.by
       IN  /\ e.ev.message = Concat(username'[ws], JOINED)
           /\ readyState[ws] = "OPEN"
                => /\ Len(outbox'[ws]) = Len(outbox[ws]) + 2
                   /\ outbox'[ws][Len(outbox[ws]) + 1].type = "history"
                   /\ outbox'[ws][Len(outbox[ws]) + 2] = e.ev
           /\ \A c \in Conns \ {ws} :
                \A k \in (Len(outbox[c]) + 1)..Len(outbox'[c]) :
                    outbox'[c][k].type # "history"
           /\ \A c \in e.registered :
                readyState[c] = "OPEN" => Last(outbox'[c]) = e.ev
           \* no join frame received earlier is still to be announced
           /\ \/ /\ tasks' = tasks
                 /\ \A j \in DOMAIN tasks : tasks[j].kind # "find"
              \/ \E i \in DOMAIN tasks :
                    /\ tasks[i].kind = "find"
                    /\ tasks[i].ws = ws
                    /\ tasks' = RemoveAt(tasks, i)
                    /\ \A j \in 1..(i - 1) : tasks[j].kind # "find"

\* C12 (the claim as stated): a join sends one history event, to the joiner
\* only and before the joiner's own "<name> joined the chat"; the announcement
\* goes to every registered open socket, the joiner included; and joins are
\* announced in the order in which their frames were received.
C12_JoinHistoryThenAnnouncement == [][C12_JoinAnnouncedStep]_vars

C13_BlankJoinStep ==
    \A ws \in Conns, data \in ProtocolFrames :
        (/\ data.type = "join"
         /\ (data.username = Undefined \/ IsBlank(data.username))
         /\ OnMessage(ws, data))
        => /\ username'[ws] = ANONYMOUS
           /\ \A k \in (Len(outbox[ws]) + 1)..Len(outbox'[ws]) :
                 outbox'[ws][k].type # "error"
           /\ Len(bcastLog') = Len(bcastLog) + 1
                 => Last(bcastLog').ev.message = Concat(ANONYMOUS, JOINED)

\* C13 (the claim as stated): a join frame whose username is missing, empty or
\* whitespace-only is not rejected and sets the display name to "Anonymous", so
\* the announcement reads "Anonymous joined the chat".
C13_BlankJoinIsAnonymous == [][C13_BlankJoinStep]_vars

C14_AcceptanceStep ==
    \A ws \in Conns, data \in BodyFrames :
        (data.type = "message" /\ OnMessage(ws, data))
        => ((accepted' # accepted)
              <=> /\ data.message # Undefined
                  /\ StrLen(Trim(data.message)) >= 1
                  /\ StrLen(Trim(data.message)) <= MaxMessageLength)

\* C14 (the claim as stated): a message frame is accepted if and only if its
\* body has between 1 and 1000 characters after trimming.
C14_AcceptedIffTrimmedInBounds == [][C14_AcceptanceStep]_vars

NameInBounds(u) ==
    /\ u # Undefined
    /\ StrLen(Trim(u)) >= 1
    /\ StrLen(Trim(u)) <= MaxUsernameLength

\* C15 (the claim as stated): every chat message in the ring buffer or in a
\* message event has a sender display name of 1 to 50 characters after trimming.
C15_SenderNameBounded ==
    /\ \A i \in DOMAIN messageHistory : NameInBounds(messageHistory[i].username)
    /\ \A c \in Conns : \A i \in DOMAIN outbox[c] :
         outbox[c][i].type = "message" => NameInBounds(outbox[c][i].username)

Pruned(c) ==
    \E i \in DOMAIN bcastLog : c \in bcastLog[i].registered \ bcastLog[i].to

\* C16 (the claim as stated): for a socket that a broadcast found not writable
\* and removed from the registry, a leave announcement naming its display name
\* has been broadcast by the time the socket is closed.
C16_PrunedSocketAnnounced ==
    \A c \in Conns :
        (Pruned(c) /\ readyState[c] = "CLOSED")
        => \E i \in LeaveEntries(c) :
               bcastLog[i].ev.message = Concat(username[c], LEFT)

C17_UnknownTypeStep ==
    \A ws \in Conns :
        OnMessage(ws, UnknownFrame)
        => /\ outbox' = [outbox EXCEPT ![ws] = Append(@, ErrorEv(E_UNKNOWN))]
           /\ UNCHANGED <<clients, username, messageHistory, store, tasks,
                          accepted, bcastLog>>

\* C17: a frame whose type is neither join nor message makes the server send
\* one error event "Unknown message type" to the sender only; the registry, the
\* display names, the ring buffer and the store are unchanged and nothing is
\* broadcast.
C17_UnknownTypeRejected == [][C17_UnknownTypeStep]_vars

\* C17 witness: of two registered sockets with a name set by join, one was
\* sent the error and the other was not
C17_Witness ==
    \E c, d \in clients :
        /\ c # d
        /\ \E i \in DOMAIN outbox[c] : outbox[c][i] = ErrorEv(E_UNKNOWN)
        /\ \A i \in DOMAIN outbox[d] : outbox[d][i].type # "error"
        /\ \E i \in DOMAIN outbox[d] : outbox[d][i].type = "history"

C18_ParseErrorStep ==
    \A ws \in Conns :
        OnMessage(ws, BadFrame)
        => /\ outbox' = [outbox EXCEPT ![ws] = Append(@, ErrorEv(E_INVALID))]
           /\ ws \in clients'
           /\ readyState'[ws] = "OPEN"
           /\ UNCHANGED <<clients, username, messageHistory, store, tasks,
                          accepted, bcastLog>>

\* C18: unparseable data makes the server send one error event "Invalid message
\* format" to the sender only; the sender stays registered and open, no other
\* socket is sent anything and no handler in flight is disturbed.
C18_ParseErrorReported == [][C18_ParseErrorStep]_vars

\* C18 witness: after the error a later join of the same socket was served, and
\* so was a join of the other socket
C18_Witness ==
    \E c, d \in clients :
        /\ c # d
        /\ \E i, j \in DOMAIN outbox[c] :
             /\ i < j
             /\ outbox[c][i] = ErrorEv(E_INVALID)
             /\ outbox[c][j].type = "history"
        /\ \A i \in DOMAIN outbox[d] : outbox[d][i].type # "error"
        /\ \E i \in DOMAIN outbox[d] : outbox[d][i].type = "history"

C19_LeaveStep ==
    (Len(bcastLog') = Len(bcastLog) + 1 /\ Last(bcastLog').tag.kind = "leave")
    => LET e == Last(bcastLog')
           ws == Last(bcastLog').tag.by
       IN  /\ e.registered = clients \ {ws}
           /\ ws \notin clients'
           /\ outbox'[ws] = outbox[ws]
           /\ \A c \in e.registered :
                readyState'[c] = "OPEN"
                    => outbox'[c] = Append(outbox[c], e.ev)
           /\ username[ws] = ANONYMOUS
                => e.ev.message = Concat(ANONYMOUS, LEFT)

\* C19: when the close or the error callback of a socket runs, the leave event
\* is broadcast over the registry without that socket: the leaving socket is
\* sent nothing, every remaining open socket is sent the event, and for a socket
\* that never set a name the event reads "Anonymous left the chat".
C19_LeaveAfterUnregister == [][C19_LeaveStep]_vars

\* C19 witness: a socket that never joined left, and the other socket, which
\* had joined, was sent "Anonymous left the chat"
C19_Witness ==
    \E i \in DOMAIN bcastLog :
        /\ bcastLog[i].tag.kind = "leave"
        /\ bcastLog[i].to # {}
        /\ bcastLog[i].ev.message = Concat(ANONYMOUS, LEFT)
        /\ \A j \in DOMAIN bcastLog :
             bcastLog[j].tag.kind = "join" => bcastLog[j].tag.by # bcastLog[i].tag.by
        /\ \E j \in DOMAIN bcastLog : bcastLog[j].tag.kind = "join"

C23_MessageFrameStep ==
    \A ws \in Conns, data \in NameFrames :
        (data.type = "message" /\ OnMessage(ws, data))
        => /\ username' = username
           /\ accepted' # accepted
                => Last(accepted').username = OrElse(data.username, username[ws])

C23_LeaveNamesStoredName ==
    \A i \in DOMAIN bcastLog :
        bcastLog[i].tag.kind = "leave"
            => bcastLog[i].ev.message = Concat(username[bcastLog[i].tag.by], LEFT)

\* C23 (the claim as stated): a message frame changes no stored display name;
\* its message is sent under the frame's username if it has one and under the
\* stored name otherwise; and every leave announcement of a session uses the
\* stored name, the one set by join.
C23_FrameNameForOneMessageOnly ==
    []C23_LeaveNamesStoredName /\ [][C23_MessageFrameStep]_vars

C24_BroadcastFieldsStep ==
    (Len(bcastLog') = Len(bcastLog) + 1 /\ Last(bcastLog').tag.kind = "message")
    => IF store' # store
       THEN /\ Len(store') = Len(store) + 1
            /\ Last(bcastLog').ev = MessageEv(Last(store'))
       ELSE /\ Len(messageHistory') >= 1
            /\ \E k \in DOMAIN accepted' : accepted'[k] = Last(messageHistory')
            /\ Last(bcastLog').ev = MessageEv(Last(messageHistory'))

\* C24: the message event broadcast for an accepted message carries the
\* username, message and timestamp of the stored document when the append
\* succeeded, and those of the record built by the handler when the append was
\* skipped or failed.
C24_BroadcastCarriesStoredOrLocal == [][C24_BroadcastFieldsStep]_vars

\* C24 witness: a message named " b" by its frame was stored and broadcast
\* under the stored name "b", while the ring buffer keeps " b"
C24_Witness ==
    \E j \in DOMAIN bcastLog :
        /\ bcastLog[j].tag.persist = "saved"
        /\ bcastLog[j].to # {}
        /\ bcastLog[j].ev.username = Lit(<<"b">>)
        /\ \E k \in DOMAIN messageHistory :
             messageHistory[k].username = Lit(<<" ", "b">>)

C25_FetchFailureStep ==
    \A i \in 1..MaxFrames :
        FindRejected(i)
        => /\ Len(bcastLog') = Len(bcastLog) + 1
           /\ Last(bcastLog').tag.kind = "join"
           /\ Last(bcastLog').tag.by = tasks[i].ws
           /\ Last(bcastLog').ev.message = Concat(username[tasks[i].ws], JOINED)
           /\ Last(bcastLog').to = {c \in clients : readyState[c] = "OPEN"}
           /\ readyState[tasks[i].ws] = "OPEN"
                => outbox'[tasks[i].ws] =
                     outbox[tasks[i].ws]
                       \o <<HistoryEv(SliceLast(messageHistory, HistoryPage)),
                            Last(bcastLog').ev>>
           /\ \A c \in Conns :
                \A k \in (Len(outbox[c]) + 1)..Len(outbox'[c]) :
                    outbox'[c][k].type # "error"

\* C25: when the store is connected and the query for recent messages fails
\* during a join, the joiner is still sent a history event, holding the last 50
\* entries of the ring buffer, the join is still announced to every open
\* registered socket, and no error event is sent to any socket.
C25_FetchFailureFallsBack == [][C25_FetchFailureStep]_vars

\* C25 witness: with the store connected and empty, a joiner was sent a
\* history that is not empty, so it came from the ring buffer
C25_Witness ==
    /\ dbConnected
    /\ store = <<>>
    /\ \E c \in Conns : \E i \in DOMAIN outbox[c] :
         /\ outbox[c][i].type = "history"
         /\ Len(outbox[c][i].messages) >= 1
         /\ i < Len(outbox[c])
         /\ outbox[c][i + 1].type = "system"

\* C26 (the claim as stated): every message that was broadcast is in the store.
C26_EveryBroadcastMessageStored ==
    \A i \in DOMAIN bcastLog :
        bcastLog[i].tag.kind = "message"
            => \E k \in DOMAIN store :
                   /\ store[k].message = bcastLog[i].ev.message
                   /\ store[k].timestamp = bcastLog[i].ev.timestamp

C27_RegistryStep ==
    \* an entry is inserted only when the connection is accepted
    /\ \A c \in clients' \ clients : readyState[c] = "NEW"
    \* an unregister of a socket that has no entry leaves the registry as the
    \* broadcast of the leave event finds it
    /\ (/\ Len(bcastLog') = Len(bcastLog) + 1
        /\ Last(bcastLog').tag.kind = "leave"
        /\ Last(bcastLog').tag.by \notin clients)
       => /\ clients' \subseteq clients
          /\ \A c \in clients \ clients' : readyState'[c] # "OPEN"

\* C27: an entry of the registry is inserted only when its connection is
\* accepted, so an entry removed by close, error or pruning is never inserted
\* again, not even when a join or message handler of that socket resumes after
\* its await; a second unregister of a socket removes nothing.
C27_EntryRemovedOnce == [][C27_RegistryStep]_vars

\* C27 witness: a join handler resumed and announced the join after the
\* socket's entry was removed, and the socket has no entry
C27_Witness ==
    \E i, j \in DOMAIN bcastLog :
        /\ i < j
        /\ bcastLog[i].tag.kind = "leave"
        /\ bcastLog[j].tag.kind = "join"
        /\ bcastLog[i].tag.by = bcastLog[j].tag.by
        /\ bcastLog[j].tag.by \notin clients
        /\ readyState[bcastLog[j].tag.by] = "CLOSED"

\* C28 (the claim as stated): the join of a socket is announced only while the
\* socket is in the registry, and never after the socket's leave announcement.
C28_NoJoinAfterLeave ==
    \A j \in DOMAIN bcastLog :
        bcastLog[j].tag.kind = "join"
            => /\ bcastLog[j].tag.by \in bcastLog[j].registered
               /\ \A i \in 1..(j - 1) :
                    ~(/\ bcastLog[i].tag.kind = "leave"
                      /\ bcastLog[i].tag.by = bcastLog[j].tag.by)

\* the events socket c was sent by broadcasts, in the order of its outbox:
\* system and message events are sent by broadcastMessage only
BroadcastsReceived(c) ==
    LET IsBroadcast(e) == e.type \in {"system", "message"}
    IN  SelectSeq(outbox[c], IsBroadcast)

\* the events of the broadcasts that wrote to socket c, in the order in which
\* the server made the broadcasts
BroadcastsMade(c) ==
    LET Wrote(e) == c \in e.to
    IN  [k \in DOMAIN SelectSeq(bcastLog, Wrote) |->
            SelectSeq(bcastLog, Wrote)[k].ev]

\* C31: every socket receives the broadcasts that wrote to it in the order in
\* which the server made them, so two sockets that both receive two broadcast
\* events receive them in the same relative order, whatever the interleaving
\* of the message, join and disconnect handlers.
C31_BroadcastsTotallyOrdered ==
    \A c \in Conns : BroadcastsReceived(c) = BroadcastsMade(c)

\* C31 witness: two sockets both received a join announcement and a chat
\* message whose save was awaited
C31_Witness ==
    \E i, j \in DOMAIN bcastLog :
        /\ i # j
        /\ bcastLog[i].to = Conns
        /\ bcastLog[j].to = Conns
        /\ bcastLog[i].tag.kind = "join"
        /\ bcastLog[j].tag.kind = "message"
        /\ bcastLog[j].tag.persist \in {"saved", "failed"}

\* the broadcasts of chat messages, in the order in which they were made
MessageBroadcasts ==
    LET IsMessage(e) == e.tag.kind = "message"
    IN  SelectSeq(bcastLog, IsMessage)

\* the broadcast event ev carries the record m of the ring buffer, as built
\* or as the schema stored it
Carries(ev, m) == ev = MessageEv(m) \/ ev = MessageEv(messageSchema(m))

C32_RingMatchesBroadcasts ==
    /\ Len(messageHistory)
         = Len(SliceLast(MessageBroadcasts, HistoryRetention))
    /\ \A k \in DOMAIN messageHistory :
         Carries(SliceLast(MessageBroadcasts, HistoryRetention)[k].ev,
                 messageHistory[k])

C32_PushAndBroadcastStep ==
    /\ messageHistory' # messageHistory
         => /\ Len(bcastLog') = Len(bcastLog) + 1
            /\ Last(bcastLog').tag.kind = "message"
            /\ Carries(Last(bcastLog').ev, Last(messageHistory'))
    \* a history that was not read from the store holds broadcast messages only
    /\ \A c \in Conns :
         \A p \in (Len(outbox[c]) + 1)..Len(outbox'[c]) :
            (outbox'[c][p].type = "history"
             /\ ~ \E i \in 1..MaxFrames : FindResolved(i))
                => /\ outbox'[c][p].messages
                       = SliceLast(messageHistory, HistoryPage)
                   /\ \A k \in DOMAIN outbox'[c][p].messages :
                        \E b \in DOMAIN MessageBroadcasts :
                            Carries(MessageBroadcasts[b].ev,
                                    outbox'[c][p].messages[k])

\* C32: the push of an accepted message to the ring buffer and its broadcast
\* happen in one step, so the entries of the ring buffer are, in order, the
\* messages of the last broadcasts of chat messages, and a history taken from
\* the ring buffer holds only messages that were broadcast before.
C32_RingBufferFollowsBroadcasts ==
    []C32_RingMatchesBroadcasts /\ [][C32_PushAndBroadcastStep]_vars

\* C32 witness: two chat messages were pushed and broadcast, and a socket was
\* then sent both as its history while the store held no document
C32_Witness ==
    /\ store = <<>>
    /\ Len(messageHistory) = 2
    /\ Len(MessageBroadcasts) = Len(messageHistory)
    /\ \E c \in Conns : \E p \in DOMAIN outbox[c] :
          /\ outbox[c][p].type = "history"
          /\ outbox[c][p].messages = messageHistory

-----------------------------------------------------------------------------
(* Claims about the client *)

LiveSockets == {k \in DOMAIN sockets : Live(k)}

\* C6 (the claim as stated): the client has at most one live channel
\* (connecting or open) and at most one pending reconnect timer.
C6_OneChannelOneTimer ==
    /\ Cardinality(LiveSockets) <= 1
    /\ Cardinality(timers) <= 1

BackoffTable == <<1000, 2000, 4000, 8000, 10000>>

C7_DelaysFollowTable ==
    /\ reconnectAttempts <= Len(BackoffTable)
    /\ Len(delays) = reconnectAttempts
    /\ delays = SubSeq(BackoffTable, 1, Len(delays))
    /\ \A tm \in timers : \E n \in DOMAIN BackoffTable : tm.delay = BackoffTable[n]

C7_ExhaustedStep ==
    \A k \in DOMAIN sockets :
        (/\ sockets[k].readyState # "CLOSED"
         /\ sockets'[k].readyState = "CLOSED"
         /\ reconnectAttempts = Len(BackoffTable))
        => /\ timers' = timers
           /\ reconnectAttempts' = reconnectAttempts
           /\ delays' = delays
           /\ mounted # "unmounted" => error' = ErrUnable

\* C7: counted from the last time the attempt counter was 0, the reconnects
\* scheduled by unclean closures have the delays 1000, 2000, 4000, 8000 and
\* 10000 ms in that order; a closure with the counter at 5 schedules nothing,
\* leaves the counter at 5 and shows the terminal error.
C7_BackoffSequence == []C7_DelaysFollowTable /\ [][C7_ExhaustedStep]_vars

\* C7 witness: five reconnects were scheduled, the sixth closure gave up
C7_Witness ==
    /\ delays = BackoffTable
    /\ reconnectAttempts = 5
    /\ timers = {}
    /\ error = ErrUnable
    /\ Len(sockets) = 6
    /\ \A k \in DOMAIN sockets : sockets[k].readyState = "CLOSED"

\* C8 (the claim as stated): once the user has disconnected, no reconnect timer
\* is pending and no connect attempt is under way.
C8_NoReconnectAfterDisconnect ==
    mounted = "unmounted" =>
        /\ timers = {}
        /\ \A k \in DOMAIN sockets : sockets[k].readyState # "CONNECTING"

C20_ManualReconnectStep ==
    clicks' = clicks + 1
    => /\ Len(sockets') = Len(sockets) + 1
       /\ Last(sockets').readyState = "CONNECTING"
       /\ reconnectAttempts' = 0

\* C20 (the claim as stated): a click on Reconnect starts a connect attempt and
\* resets the reconnect attempt counter to 0.
C20_ManualReconnectResetsCounter == [][C20_ManualReconnectStep]_vars

C21_JoinFirst ==
    \A k \in DOMAIN sockets :
        /\ sockets[k].readyState = "OPEN" => sockets[k].sent # <<>>
        /\ sockets[k].sent # <<>>
             => /\ sockets[k].sent[1] = JoinFrame(usernameProp)
                /\ \A i \in 2..Len(sockets[k].sent) :
                     sockets[k].sent[i].type = "message"

C21_OpenStep ==
    \A k \in DOMAIN sockets :
        (sockets[k].readyState # "OPEN" /\ sockets'[k].readyState = "OPEN")
            => /\ reconnectAttempts' = 0
               /\ sockets[k].sent = <<>>
               /\ sockets'[k].sent = <<JoinFrame(usernameProp)>>

\* C21: when a channel of the client opens, the reconnect counter is set to 0
\* and the join frame with the display name is sent on it; on every channel
\* the join frame is the first frame sent and the only join frame, so it
\* precedes every message frame.
C21_OpenResetsAndJoinsFirst == []C21_JoinFirst /\ [][C21_OpenStep]_vars

\* C21 witness: a channel opened after a failed attempt carries the join frame
\* and then a message frame, and the counter is 0
C21_Witness ==
    /\ reconnectAttempts = 0
    /\ \E k \in DOMAIN sockets :
         /\ k >= 2
         /\ sockets[k].readyState = "OPEN"
         /\ Len(sockets[k].sent) = 2
         /\ sockets[k].sent[2].type = "message"

C22_MessageStep ==
    \A k \in 1..MaxSockets, data \in UiEvents, now \in 0..MaxClock :
        (onmessage(k, data, now) /\ data.type = "message")
            => IF \E i \in DOMAIN messages :
                     <<messages[i].timestamp, messages[i].username,
                       messages[i].message>>
                        = <<toISOString(data.timestamp), data.username,
                            data.message>>
               THEN messages' = messages
               ELSE messages' = Append(messages,
                                  [username |-> data.username,
                                   message |-> data.message,
                                   timestamp |-> toISOString(data.timestamp),
                                   type |-> "message"])

C22_Idempotent ==
    \A data \in UiEvents :
        data.type = "message"
            => handleWebSocketMessage(
                   handleWebSocketMessage(messages, data, 0), data, 0)
                 = handleWebSocketMessage(messages, data, 0)

\* C22: the client appends a message event to its list unless an entry of the
\* list has the same timestamp, username and body, and then leaves the list as
\* it is; handling a message event twice gives the list that handling it once
\* gives.
C22_MessageDedup == []C22_Idempotent /\ [][C22_MessageStep]_vars

\* C22 witness: the client handled the same message event twice in a row and
\* its list has one entry for it
C22_Witness ==
    /\ Len(received) >= 2
    /\ received[Len(received)].type = "message"
    /\ received[Len(received) - 1] = received[Len(received)]
    /\ Cardinality({i \in DOMAIN messages :
                      messages[i] = Entry(received[Len(received)])}) = 1

\* C29 (the claim as stated): for a socket that stays connected, once the
\* history it asked for has been delivered, every chat message broadcast to it
\* after its join frame arrived is in the list of a client that handled the
\* delivered events in order.
C29_NoMessageLostInJoinRace ==
    \A c \in Conns :
        (/\ joinMark[c] >= 0
         /\ readyState[c] = "OPEN"
         /\ c \in clients
         /\ \A i \in DOMAIN tasks : ~(tasks[i].kind = "find" /\ tasks[i].ws = c)
         /\ \E p \in (joinMark[c] + 1)..Len(outbox[c]) :
               outbox[c][p].type = "history")
            => \A q \in (joinMark[c] + 1)..Len(outbox[c]) :
                   outbox[c][q].type = "message"
                       => \E i \in DOMAIN Handled(outbox[c]) :
                              Handled(outbox[c])[i] = Entry(outbox[c][q])

\* C30 (the claim as stated): while the user has not left the chat, the client
\* never rests with every channel closed, no reconnect timer pending and no
\* error shown.
C30_NeverRestsClosed ==
    (/\ mounted = "mounted"
     /\ sockets # <<>>
     /\ \A k \in DOMAIN sockets : sockets[k].readyState = "CLOSED")
        => (timers # {} \/ error # NoError)

C30_UncleanCloseStep ==
    \A k \in 1..MaxSockets :
        (onclose(k, FALSE) /\ mounted = "mounted")
            => \/ /\ \E tm \in timers' \ timers : tm.id = reconnectTimeoutRef'
                  /\ error' = ErrLost(reconnectAttempts')
               \/ /\ reconnectAttempts >= maxReconnectAttempts
                  /\ timers' = timers
                  /\ error' = ErrUnable

C30_TimerStep ==
    \A id \in 1..(MaxSockets + 1) :
        ReconnectTimerFires(id)
            => /\ Len(sockets') = Len(sockets) + 1
               /\ Last(sockets').readyState = "CONNECTING"

C30_CleanCloseStep ==
    \A k \in 1..MaxSockets :
        (onclose(k, TRUE) /\ reconnectAttempts < maxReconnectAttempts)
            => /\ timers' = timers
               /\ error' = error

\* C30 (amended): an unclean closure of a channel (a connect timeout included)
\* while the user has not left the chat either schedules a reconnect timer,
\* whose firing starts a new connect attempt, or, once the attempts are
\* exhausted, shows the terminal error; a clean closure with attempts left
\* schedules nothing and shows nothing.
C30_UncleanCloseRetriesOrGivesUp ==
    [][C30_UncleanCloseStep /\ C30_TimerStep /\ C30_CleanCloseStep]_vars

\* C30 witness: two channels in a row closed uncleanly, every channel is
\* closed and a reconnect timer is pending
C30_Witness ==
    /\ mounted = "mounted"
    /\ sockets # <<>>
    /\ \A k \in DOMAIN sockets : sockets[k].readyState = "CLOSED"
    /\ reconnectAttempts >= 2
    /\ timers # {}
    /\ error = ErrLost(reconnectAttempts)

C33_CounterInRange ==
    reconnectAttempts \in 0..maxReconnectAttempts

C33_CounterStep ==
    reconnectAttempts' # reconnectAttempts
        => \/ /\ reconnectAttempts' = reconnectAttempts + 1
              /\ reconnectAttempts < maxReconnectAttempts
              /\ \E k \in 1..MaxSockets : onclose(k, FALSE)
           \/ /\ reconnectAttempts' = 0
              /\ \E k \in DOMAIN sockets :
                    /\ sockets[k].readyState = "CONNECTING"
                    /\ sockets'[k].readyState = "OPEN"

\* C33: the reconnect attempt counter is always between 0 and 5; it changes
\* only by growing by 1 when a channel closes uncleanly while it is below 5,
\* and by returning to 0 when a channel opens.
C33_CounterBounded == []C33_CounterInRange /\ [][C33_CounterStep]_vars

\* C33 witness: the counter has reached 5 and the fifth reconnect is scheduled
C33_Witness ==
    /\ reconnectAttempts = maxReconnectAttempts
    /\ timers # {}
    /\ Len(delays) = maxReconnectAttempts

====
